---------------------------- MODULE Spec2Model ----------------------------
(***************************************************************************)
(* LogBoy firmware (src/LogBoy_V2.ino): the log capture and distribution   *)
(* pipeline.  Serial lines are trimmed, timestamped, pushed to a ring      *)
(* buffer, appended to the session's log file on the SD card and served by *)
(* the web handlers, all from one cooperative loop.                        *)
(*                                                                         *)
(* Arduino Strings and file contents are sequences of one-character        *)
(* strings, so trimming, formatting, parsing and chunking are computed     *)
(* character by character as the firmware does.                            *)
(***************************************************************************)
EXTENDS Integers, Sequences, FiniteSets, TLC

(***************************************************************************)
(* Bounds of the model.  HISTORY_LINES and DOWNLOAD_CHUNK are the          *)
(* firmware's 100 and 1024 scaled down so that wrap-around and multi-chunk *)
(* downloads happen within the explored runs.                              *)
(***************************************************************************)
HISTORY_LINES == 2
DOWNLOAD_CHUNK == 24
MaxIngest == 3
MaxResets == 1
MaxTicks == 1

\* Program constants (millivolts, milliseconds).
BATTERY_PRESENT_V == 3000
BATTERY_SD_MIN_V == 3300
TIMESTAMP_PERIOD_MS == 1000
BATTERY_PERIOD_MS == 1000

(***************************************************************************)
(* Arduino String helpers                                                  *)
(***************************************************************************)
\* isspace() of the C locale.
IsSpace(c) == c \in {" ", "\t", "\n", "\r", "\f"}

IsDigit(c) == c \in {"0", "1", "2", "3", "4", "5", "6", "7", "8", "9"}

DigitChars == <<"0", "1", "2", "3", "4", "5", "6", "7", "8", "9">>

DigitValue(c) == CHOOSE d \in 0..9 : DigitChars[d + 1] = c

\* String::substring(from, to): 0-based, [from, to).
Substring(s, from, to) == SubSeq(s, from + 1, to)

\* String::startsWith / endsWith
StartsWith(s, p) == Len(s) >= Len(p) /\ SubSeq(s, 1, Len(p)) = p

EndsWith(s, p) ==
    Len(s) >= Len(p) /\ SubSeq(s, Len(s) - Len(p) + 1, Len(s)) = p

\* String::indexOf(c, from): 0-based index of the first c at or after from, -1 if none.
IndexOf(s, c, from) ==
    LET hits == {i \in (from + 1)..Len(s) : s[i] = c}
    IN  IF hits = {} THEN -1
        ELSE (CHOOSE i \in hits : \A j \in hits : i <= j) - 1

\* Trims to compare with Trim: one that only drops the line end, one that
\* only trims on the right.
RECURSIVE TrimLineEndOnly(_)
TrimLineEndOnly(s) ==
    IF Len(s) > 0 /\ s[Len(s)] \in {"\r", "\n"}
    THEN TrimLineEndOnly(SubSeq(s, 1, Len(s) - 1))
    ELSE s

RECURSIVE TrimRightOnly(_)
TrimRightOnly(s) ==
    IF Len(s) > 0 /\ s[Len(s)] \in {" ", "\t", "\n", "\r", "\f"}
    THEN TrimRightOnly(SubSeq(s, 1, Len(s) - 1))
    ELSE s

\* String::trim(): removes leading and trailing whitespace.
Trim(s) ==
    LET keep == {i \in 1..Len(s) : ~IsSpace(s[i])}
    IN  IF keep = {} THEN <<>>
        ELSE LET lo == CHOOSE i \in keep : \A j \in keep : i <= j
                 hi == CHOOSE i \in keep : \A j \in keep : i >= j
             IN  SubSeq(s, lo, hi)

\* String::replace(find, with): every occurrence, left to right.
RECURSIVE Replace(_, _, _)
Replace(s, find, with) ==
    IF Len(s) = 0 \/ Len(find) = 0 THEN s
    ELSE IF StartsWith(s, find)
         THEN with \o Replace(SubSeq(s, Len(find) + 1, Len(s)), find, with)
         ELSE <<s[1]>> \o Replace(Tail(s), find, with)

\* String(int): decimal rendering.
RECURSIVE NatToStr(_)
NatToStr(n) ==
    IF n < 10 THEN <<DigitChars[n + 1]>>
    ELSE NatToStr(n \div 10) \o <<DigitChars[(n % 10) + 1]>>

IntToStr(n) == IF n < 0 THEN <<"-">> \o NatToStr(-n) ELSE NatToStr(n)

\* String::toInt() is atol(): leading whitespace, an optional sign, then digits;
\* 0 when no digit follows.
RECURSIVE DigitsValue(_, _)
DigitsValue(s, acc) ==
    IF Len(s) = 0 \/ ~IsDigit(s[1]) THEN acc
    ELSE DigitsValue(Tail(s), acc * 10 + DigitValue(s[1]))

RECURSIVE SkipSpace(_)
SkipSpace(s) == IF Len(s) > 0 /\ IsSpace(s[1]) THEN SkipSpace(Tail(s)) ELSE s

ToInt(s) ==
    LET t == SkipSpace(s)
    IN  IF Len(t) > 0 /\ t[1] = "-" THEN 0 - DigitsValue(Tail(t), 0)
        ELSE IF Len(t) > 0 /\ t[1] = "+" THEN DigitsValue(Tail(t), 0)
        ELSE DigitsValue(t, 0)

\* %02d / %04d of strftime and printf.
RECURSIVE PadTo(_, _)
PadTo(s, width) == IF Len(s) >= width THEN s ELSE PadTo(<<"0">> \o s, width)

(***************************************************************************)
(* Literals                                                                *)
(***************************************************************************)
NO_TIME == <<"[", "N", "O", "-", "T", "I", "M", "E", "]", " ">>

LogPrefix == <<"L", "o", "g">>

TxtSuffix == <<".", "t", "x", "t">>

MarkerHead == <<"L","o","g"," ","s","t","a","r","t"," ","(","M","o","d","e"," ">>

MarkerMid == <<")", ":", " ">>

\* Print::println terminates with CR LF.
CRLF == <<"\r", "\n">>

\* Files a card may hold when a session starts: nothing, or the log of an
\* earlier session beside an unrelated file.
OldLog1 == <<"L","o","g","1","_","N","O","-","T","I","M","E","_",".","t","x","t">>

NotesTxt == <<"n","o","t","e","s",".","t","x","t">>

MissingTxt == <<"m","i","s","s","i","n","g",".","t","x","t">>

OldContent == <<"o", "l", "d", "\n">>

EmptyMedium == [n \in {} |-> <<>>]

InitialMedia ==
    { EmptyMedium,
      [n \in {OldLog1, NotesTxt} |-> OldContent] }

\* Battery readings (mV): sensor absent, present but below the SD threshold, good.
BatteryLevels == {0, 3200, 3300}

\* Bytes the UART may deliver at a tick: nothing, whitespace only, a padded
\* terminated line, bytes without terminator, a line followed by an empty one.
SerialArrivals ==
    { <<>>,
      <<" ", "\r", "\n">>,
      <<" ", "a", " ", "b", " ", "\r", "\n">>,
      <<"c">>,
      <<"c", "\n", "\n">> }

\* What the time source can answer.
TimeSourceValues ==
    { [year |-> 2024, mon |-> 1, mday |-> 1, hour |-> 12, min |-> 0, sec |-> 0] }

\* milliseconds that pass in one loop iteration
TickSteps == {0, 1000}

\* finer iteration durations, for the runs that watch the clock
FineTickSteps == {0, 400, 1000}

\* setup(): delay(300), StartUpAnimation 5 x 120, chooseBaudRate's delay(200).
SetupDelayMs == 300 + 5 * 120 + 200

(***************************************************************************)
(* Timestamp cache                                                         *)
(***************************************************************************)
\* strftime "[%Y-%m-%d %H:%M:%S] "
FormatTimestamp(t) ==
    <<"[">> \o PadTo(NatToStr(t.year), 4) \o <<"-">> \o PadTo(NatToStr(t.mon), 2)
      \o <<"-">> \o PadTo(NatToStr(t.mday), 2) \o <<" ">>
      \o PadTo(NatToStr(t.hour), 2) \o <<":">> \o PadTo(NatToStr(t.min), 2)
      \o <<":">> \o PadTo(NatToStr(t.sec), 2) \o <<"]", " ">>

\* getLocalTime(&timeinfo, 500): a calendar time, or failure.
TimeQueryResults == {[ok |-> FALSE]} \cup {[ok |-> TRUE, tm |-> t] : t \in TimeSourceValues}

\* An update without the rate limit (to compare with TimestampDue).
TimestampDueAlways(nowMs, last) == TRUE

TimestampDue(nowMs, last) == ~(nowMs - last < TIMESTAMP_PERIOD_MS)

NoQuery == [asked |-> FALSE]

\* A cache that stores an empty prefix when the query fails (to compare with
\* TimestampOf).
TimestampOfEmptyOnFailure(r) == IF r.ok THEN FormatTimestamp(r.tm) ELSE <<>>

TimestampOf(r) == IF r.ok THEN FormatTimestamp(r.tm) ELSE NO_TIME

(***************************************************************************)
(* Ring buffer                                                             *)
(***************************************************************************)
NextHead(head) == (head + 1) % HISTORY_LINES

\* A count that keeps growing past the capacity (to compare with NextCount).
NextCountUnbounded(count) == count + 1

NextCount(count) == IF count < HISTORY_LINES THEN count + 1 ELSE count

\* A walk that starts at slot 0 whatever the head (to compare with HistoryStart).
HistoryStartFromZero(head, count) == 0

HistoryStart(head, count) == (head - count + HISTORY_LINES) % HISTORY_LINES

\* The lines a handler walks: oldest first, historyCount of them.
HistorySnapshot(lines, head, count) ==
    [i \in 1..count |-> lines[(HistoryStart(head, count) + (i - 1)) % HISTORY_LINES]]

\* data += historyLines[idx] + "\n"
RECURSIVE JoinLines(_, _)
JoinLines(ls, term) ==
    IF Len(ls) = 0 THEN <<>> ELSE ls[1] \o term \o JoinLines(Tail(ls), term)

(***************************************************************************)
(* Log file names                                                          *)
(***************************************************************************)
IsLogName(filename) == StartsWith(filename, LogPrefix) /\ EndsWith(filename, TxtSuffix)

\* The number findNextLogNumber reads out of one directory entry (0 when the
\* entry does not count).
LogNumberOf(filename) ==
    IF IsLogName(filename)
    THEN LET start == 3
             us    == IndexOf(filename, "_", start)
             end   == IF us = -1 THEN IndexOf(filename, ".", start) ELSE us
         IN  IF end > start THEN ToInt(Substring(filename, start, end)) ELSE 0
    ELSE 0

RECURSIVE MaxLogNumber(_, _)
MaxLogNumber(names, maxLog) ==
    IF names = {} THEN maxLog
    ELSE LET f == CHOOSE n \in names : TRUE
             logNum == LogNumberOf(f)
         IN  MaxLogNumber(names \ {f}, IF logNum > maxLog THEN logNum ELSE maxLog)

\* rootOk: SD_MMC.open("/") gave a directory handle.
findNextLogNumber(names, rootOk) ==
    IF ~rootOk THEN 1 ELSE MaxLogNumber(names, 0) + 1

FilenameTimestamp(ts) ==
    Trim(Replace(Replace(Replace(Replace(ts, <<"[">>, <<>>), <<"]">>, <<>>),
                         <<":">>, <<"-">>), <<" ">>, <<"_">>))

makeSequentialLogFilename(names, rootOk, ts) ==
    LogPrefix \o IntToStr(findNextLogNumber(names, rootOk)) \o <<"_">>
        \o FilenameTimestamp(ts) \o TxtSuffix

\* printf("Log start (Mode %d): %s\n", Mode, get_timestamp())
SessionMarker(mode, ts) == MarkerHead \o IntToStr(mode) \o MarkerMid \o ts \o <<"\n">>

(***************************************************************************)
(* Persistence sink                                                        *)
(***************************************************************************)
\* startModeInitialization: the modes that log to the card, and the power gate.
PersistenceMode(mode) == mode = 1 \/ mode = 2 \/ mode = 3

\* Gates to compare with SdGate: no voltage test; the wrong threshold.
SdGateModeOnly(mode, voltage) == mode = 1 \/ mode = 2 \/ mode = 3

SdGatePresentThreshold(mode, voltage) ==
    (mode = 1 \/ mode = 2 \/ mode = 3) /\ voltage >= BATTERY_PRESENT_V

SdGate(mode, voltage) == PersistenceMode(mode) /\ voltage >= BATTERY_SD_MIN_V

WebMode(mode) == mode = 1 \/ mode = 3

\* A WiFi attempt made whatever the battery reads (to compare with WifiGate).
WifiGateModeOnly(mode, voltage) == WebMode(mode)

WifiGate(mode, voltage) == WebMode(mode) /\ voltage >= BATTERY_PRESENT_V

\* A loop that persists in Mode 1 only (to compare with ShouldPersist).
ShouldPersistModeOne(mode, mounted) == mode = 1 /\ mounted

\* loop(): (Mode == 1 || Mode == 2 || Mode == 3) && sdMounted
ShouldPersist(mode, mounted) == PersistenceMode(mode) /\ mounted

\* appendLineToSD's guard: sdMounted && currentLogFile
CanAppend(mounted, handleOpen) == mounted /\ handleOpen

\* The card and the open handle: files holds the bytes on the medium, buf the
\* bytes written to the handle and not flushed yet.
\* print() in place of println() (to compare with Println).
PrintWithoutTerminator(st, line) == [st EXCEPT !.buf = @ \o line]

\* currentLogFile.println(line)
Println(st, line) == [st EXCEPT !.buf = @ \o line \o CRLF]

\* A flush that leaves the bytes in the buffer (to compare with Flush).
FlushNothing(st, name) == st

\* currentLogFile.flush(): the buffered bytes reach the file on the card.
Flush(st, name) ==
    [files |-> [st.files EXCEPT ![name] = @ \o st.buf], buf |-> <<>>]

\* An append that starts a new file for each line (to compare with
\* appendLineToSD).
appendLineRotating(st, name, line, mounted, handleOpen) ==
    IF CanAppend(mounted, handleOpen)
    THEN LET next == name \o <<".", "1">>
         IN  [st EXCEPT !.files = [n \in DOMAIN st.files \cup {next} |-> line \o CRLF]]
    ELSE st

\* An append that writes the record twice (to compare with appendLineToSD).
appendLineTwice(st, name, line, mounted, handleOpen) ==
    IF CanAppend(mounted, handleOpen)
    THEN Flush(Println(Println(st, line), line), name)
    ELSE st

appendLineToSD(st, name, line, mounted, handleOpen) ==
    IF CanAppend(mounted, handleOpen) THEN Flush(Println(st, line), name) ELSE st

\* SD_MMC.open(path, FILE_APPEND): an existing file keeps its bytes, a missing
\* one is created empty.
OpenForAppend(files, name) ==
    IF name \in DOMAIN files THEN files
    ELSE [n \in DOMAIN files \cup {name} |-> IF n = name THEN <<>> ELSE files[n]]

(***************************************************************************)
(* Serial input                                                            *)
(***************************************************************************)
\* Serial2.readStringUntil('\n') on the bytes that arrive before the read times
\* out: the bytes before the first terminator, or all of them when none came.
ReadStringUntil(data) ==
    LET nl == IndexOf(data, "\n", 0)
    IN  IF nl = -1 THEN data ELSE Substring(data, 0, nl)

\* The bytes left in the UART buffer after that read (the terminator is consumed).
RestAfterRead(data) ==
    LET nl == IndexOf(data, "\n", 0)
    IN  IF nl = -1 THEN <<>> ELSE SubSeq(data, nl + 2, Len(data))

\* How many reads an arrival feeds (the budget of the model is counted in reads).
RECURSIVE ReadsOf(_)
ReadsOf(data) == IF Len(data) = 0 THEN 0 ELSE 1 + ReadsOf(RestAfterRead(data))

\* A stored line without the prefix (to compare with FullLine).
FullLineNoPrefix(ts, line) == line

FullLine(ts, line) == ts \o line

PrintLine(mode, line, fullLine) == IF mode = 0 THEN line ELSE fullLine

EchoEnabled(mode) == mode # 3

(***************************************************************************)
(* Distribution service                                                    *)
(***************************************************************************)
\* while ((bytesRead = f.read(buffer, 1024)) > 0) server.sendContent(buffer, bytesRead)
RECURSIVE ReadChunks(_)
ReadChunks(content) ==
    IF Len(content) = 0 THEN <<>>
    ELSE LET n == IF Len(content) < DOWNLOAD_CHUNK THEN Len(content) ELSE DOWNLOAD_CHUNK
         IN  <<SubSeq(content, 1, n)>> \o ReadChunks(SubSeq(content, n + 1, Len(content)))

RECURSIVE Concat(_)
Concat(chunks) == IF Len(chunks) = 0 THEN <<>> ELSE chunks[1] \o Concat(Tail(chunks))

NoResponse == [route |-> "none", code |-> 0]

\* The name test before the mount test (to compare with DownloadResponse).
DownloadResponseNameFirst(mounted, files, name) ==
    IF Len(name) = 0 THEN [route |-> "download", code |-> 400, name |-> name]
    ELSE IF ~mounted THEN [route |-> "download", code |-> 503, name |-> name]
    ELSE IF name \notin DOMAIN files
         THEN [route |-> "download", code |-> 404, name |-> name]
    ELSE [route |-> "download", code |-> 200, name |-> name,
          announced |-> Len(files[name]), chunks |-> ReadChunks(files[name])]

\* web_handle_download
DownloadResponse(mounted, files, name) ==
    IF ~mounted THEN [route |-> "download", code |-> 503, name |-> name]
    ELSE IF Len(name) = 0 THEN [route |-> "download", code |-> 400, name |-> name]
    ELSE IF name \notin DOMAIN files
         THEN [route |-> "download", code |-> 404, name |-> name]
    ELSE [route |-> "download", code |-> 200, name |-> name,
          announced |-> Len(files[name]), chunks |-> ReadChunks(files[name])]

\* web_handle_history_data
HistoryDataResponse(lines, head, count) ==
    [route |-> "data", code |-> 200,
     body |-> JoinLines(HistorySnapshot(lines, head, count), <<"\n">>)]

(***************************************************************************)
(* State                                                                   *)
(***************************************************************************)
VARIABLES
    pc,                  \* where the firmware is: menu, init, loop, web, serial, off
    sel,                 \* chooseModeWithOLED's previewed selection
    menuExit,            \* how the menu loop ended: enter or timeout
    Mode,
    now,                 \* millis()
    batteryVoltage,      \* mV
    lastBattMs,
    historyLines, historyHead, historyCount,
    currentLogFilename,
    currentLogFile,      \* the global handle tests true (it is open)
    fileBuffer,          \* bytes written to the handle and not yet flushed
    sdMounted,           \* the firmware's flag
    cardMounted,         \* SD_MMC holds a mounted card (cardType() != CARD_NONE)
    wifiConnected,
    serverStarted,       \* routes registered and server.begin() done
    cachedTimestamp, lastTimestampUpdate,
    timeQuery,           \* what getLocalTime answered when it was last asked
    sdFiles,             \* the card: file name -> bytes on the medium
    rxBuf,               \* bytes waiting in Serial2
    echo,                \* what the last loop iteration printed on Serial
    rawLine,             \* what readStringUntil returned in the last iteration
    resp,                \* what handleClient answered in this iteration
    \* history variables
    pushed,              \* lines handed to pushHistory in this session
    ingested,            \* non-empty lines read from Serial2 in this session
    mountAttempts,       \* calls of Innit_SDCard in this session
    sdAtStart,           \* the card's files when the session started
    powerGate,           \* the SD power gate as setup saw it: unknown, low, ok
    prevLogFilename,     \* the previous session's currentLogFilename
    readsLeft,           \* serial reads the environment may still feed
    resets,              \* power cycles so far (bounded by MaxResets)
    tickSteps,           \* the iteration durations (ms) the run draws from
    arrivals,            \* the bursts of bytes the run lets the UART receive
    mode1Init            \* LogBoy.ino: loop()'s static flag

vars ==
    <<pc, sel, menuExit, Mode, now, batteryVoltage, lastBattMs, historyLines, historyHead,
      historyCount, currentLogFilename, currentLogFile, fileBuffer, sdMounted,
      cardMounted, wifiConnected, serverStarted, cachedTimestamp,
      lastTimestampUpdate, timeQuery, sdFiles, rxBuf, echo, rawLine, resp, pushed,
      ingested,
      mountAttempts, sdAtStart, powerGate, prevLogFilename, readsLeft, resets,
      tickSteps, arrivals, mode1Init>>

ramVars ==
    <<historyLines, historyHead, historyCount, currentLogFilename, currentLogFile,
      fileBuffer, sdMounted, cardMounted, wifiConnected, serverStarted,
      cachedTimestamp, lastTimestampUpdate, timeQuery, mode1Init>>

ringVars == <<historyLines, historyHead, historyCount, pushed>>

sdVars == <<currentLogFilename, currentLogFile, fileBuffer, sdMounted, cardMounted, sdFiles>>

netVars == <<wifiConnected, serverStarted>>

tsVars == <<cachedTimestamp, lastTimestampUpdate, timeQuery>>

ghostVars == <<mountAttempts, sdAtStart, powerGate, prevLogFilename, resets, tickSteps, arrivals>>

NoEcho == [printed |-> FALSE]

\* if (Serial2.available() > 0) line = Serial2.readStringUntil('\n'): the String
\* read, and whether the read ended at a terminator or at the timeout.
NoRead == [avail |-> FALSE]

ReadResult(data) ==
    IF Len(data) > 0
    THEN [avail |-> TRUE, raw |-> ReadStringUntil(data),
          terminated |-> (IndexOf(data, "\n", 0) # -1)]
    ELSE NoRead

MaxNow == SetupDelayMs + MaxTicks * 1000

\* The globals as the C++ initialisers leave them at power-on.
PowerOn(v, files) ==
    /\ pc = "menu" /\ sel = 0 /\ menuExit = "none" /\ Mode = -1 /\ now = 0
    /\ batteryVoltage = v /\ lastBattMs = 0
    /\ historyLines = [i \in 0..(HISTORY_LINES - 1) |-> <<>>]
    /\ historyHead = 0 /\ historyCount = 0
    /\ currentLogFilename = <<>> /\ currentLogFile = FALSE /\ fileBuffer = <<>>
    /\ sdMounted = FALSE /\ cardMounted = FALSE
    /\ wifiConnected = FALSE /\ serverStarted = FALSE
    /\ cachedTimestamp = NO_TIME /\ lastTimestampUpdate = 0 /\ timeQuery = NoQuery
    /\ sdFiles = files /\ rxBuf = <<>> /\ echo = NoEcho /\ rawLine = NoRead /\ resp = NoResponse
    /\ pushed = <<>> /\ ingested = <<>> /\ mountAttempts = 0
    /\ sdAtStart = files /\ powerGate = "unknown"
    /\ mode1Init = FALSE

Init ==
    /\ \E v \in BatteryLevels, files \in InitialMedia : PowerOn(v, files)
    /\ prevLogFilename = <<>> /\ readsLeft = MaxIngest /\ resets = 0
    /\ tickSteps = TickSteps
    /\ arrivals = SerialArrivals

(***************************************************************************)
(* Boot menu: chooseModeWithOLED                                           *)
(***************************************************************************)
menuFrame ==
    <<now, batteryVoltage, lastBattMs, ramVars, sdFiles, rxBuf, echo, rawLine, resp, pushed,
      ingested, mountAttempts, sdAtStart, powerGate, prevLogFilename, readsLeft, resets,
      tickSteps, arrivals>>

MenuUp ==
    /\ pc = "menu"
    /\ sel' = (sel - 1 + 6) % 6
    /\ UNCHANGED <<pc, menuExit, Mode, menuFrame>>

MenuDown ==
    /\ pc = "menu"
    /\ sel' = (sel + 1) % 6
    /\ UNCHANGED <<pc, menuExit, Mode, menuFrame>>

MenuEnter ==
    /\ pc = "menu"
    /\ Mode' = sel
    /\ menuExit' = "enter"
    /\ pc' = "init"
    /\ UNCHANGED <<sel, menuFrame>>

MenuTimeout ==
    /\ pc = "menu"
    /\ Mode' = sel
    /\ menuExit' = "timeout"
    /\ pc' = "init"
    /\ UNCHANGED <<sel, menuFrame>>

(***************************************************************************)
(* setup() after the menu: startModeInitialization, then the first         *)
(* updateCachedTimestamp                                                   *)
(***************************************************************************)
\* What getLocalTime can answer in this session: the wall clock does not go
\* back, so a session after a power cycle is answered a later second.
TimeAnswers ==
    {[ok |-> FALSE]}
        \cup {[ok |-> TRUE, tm |-> [t EXCEPT !.sec = @ + resets]] : t \in TimeSourceValues}

\* updateCachedTimestamp at time nowMs
updateCachedTimestamp(nowMs) ==
    IF TimestampDue(nowMs, lastTimestampUpdate)
    THEN /\ lastTimestampUpdate' = nowMs
         /\ \E r \in TimeAnswers :
              /\ timeQuery' = [asked |-> TRUE, answer |-> r]
              /\ cachedTimestamp' = TimestampOf(r)
    ELSE UNCHANGED tsVars

\* Mode 5: esp_deep_sleep_start() does not return.
PowerOff ==
    /\ pc = "init" /\ Mode = 5
    /\ pc' = "off"
    /\ menuExit' = "none"
    /\ UNCHANGED <<sel, Mode, menuFrame>>

\* mountOk: SD_MMC.begin succeeded; rootOk: the directory scan could open "/";
\* openOk: the FILE_APPEND open gave a handle; wifiOk: an SSID was joined.
StartModeInitialization ==
    /\ pc = "init" /\ Mode # 5
    /\ \E mountOk, rootOk, openOk, wifiOk \in BOOLEAN :
         LET sdTry    == SdGate(Mode, batteryVoltage)
             mounted  == sdTry /\ mountOk
             filename == IF mounted
                         THEN makeSequentialLogFilename(DOMAIN sdFiles, rootOk,
                                                        cachedTimestamp)
                         ELSE currentLogFilename
             opened   == mounted /\ openOk
             wifiTry  == WifiGate(Mode, batteryVoltage)
         IN  /\ mountAttempts' = IF sdTry THEN mountAttempts + 1 ELSE mountAttempts
             /\ cardMounted' = mounted
             /\ currentLogFilename' = filename
             /\ currentLogFile' = opened
             /\ sdMounted' = opened
             /\ sdFiles' = IF opened THEN OpenForAppend(sdFiles, filename) ELSE sdFiles
             /\ fileBuffer' = IF opened THEN SessionMarker(Mode, cachedTimestamp)
                              ELSE fileBuffer
             /\ wifiConnected' = (wifiTry /\ wifiOk)
             /\ serverStarted' = (wifiTry /\ wifiOk)
    /\ powerGate' = IF batteryVoltage >= BATTERY_SD_MIN_V THEN "ok" ELSE "low"
    /\ now' = now + SetupDelayMs
    /\ updateCachedTimestamp(now')
    /\ menuExit' = "none"
    /\ pc' = "loop"
    /\ UNCHANGED <<sel, Mode, batteryVoltage, lastBattMs, ringVars, rxBuf, echo, rawLine, resp,
                   ingested, sdAtStart, prevLogFilename, readsLeft, resets, tickSteps, arrivals,
                   mode1Init>>

(***************************************************************************)
(* loop()                                                                  *)
(***************************************************************************)
BatteryDue(nowMs, last) == nowMs - last >= BATTERY_PERIOD_MS

\* lines 284-292: timestamp refresh, then the 1 Hz battery sample
LoopBegin ==
    /\ pc = "loop"
    /\ updateCachedTimestamp(now)
    /\ IF BatteryDue(now, lastBattMs)
       THEN /\ lastBattMs' = now
            /\ \E v \in BatteryLevels : batteryVoltage' = v
       ELSE UNCHANGED <<lastBattMs, batteryVoltage>>
    /\ echo' = NoEcho
    /\ rawLine' = NoRead
    /\ pc' = "web"
    /\ UNCHANGED <<sel, menuExit, Mode, now, ringVars, sdVars, netVars, rxBuf,
                   resp, ingested, ghostVars, readsLeft, mode1Init>>

NotMountedText == <<"N","/","A"," ","(","S","D"," ","n","o","t"," ","m","o","u","n","t","e","d",")">>

\* web_handle_root: the part of the page that depends on the state
RootResponse(filename) ==
    [route |-> "root", code |-> 200,
     logfile |-> IF Len(filename) > 0 THEN filename ELSE NotMountedText]

\* web_handle_files; rootOk: SD_MMC.open("/") gave a directory handle (the
\* handler does not test it: openNextFile on an invalid handle yields no file).
FilesResponse(mounted, files, rootOk) ==
    IF ~mounted THEN [route |-> "files", code |-> 503]
    ELSE LET listed == IF rootOk THEN {n \in DOMAIN files : IsLogName(n)} ELSE {}
         IN  [route |-> "files", code |-> 200,
              entries |-> {[name |-> n, size |-> Len(files[n])] : n \in listed},
              noFiles |-> (listed = {})]

\* web_handle_logs
LogsResponse(filename, lines, head, count) ==
    IF Len(filename) > 0
    THEN [route |-> "logs", code |-> 302, location |-> filename]
    ELSE [route |-> "logs", code |-> 200,
          body |-> JoinLines(HistorySnapshot(lines, head, count), <<"\n">>)]

\* web_handle_status
StatusResponse(voltage, connected) ==
    [route |-> "status", code |-> 200, battery_v |-> voltage, connected |-> connected]

\* WebServer answers a path without handler itself.
NotFoundResponse == [route |-> "unrouted", code |-> 404]

\* The names a client may ask /download for: none, an unknown one, any file.
DownloadNames == {<<>>, MissingTxt} \cup DOMAIN sdFiles

Requests ==
    {[path |-> p, name |-> <<>>, rootOk |-> TRUE] :
        p \in {"/", "/data", "/logs", "/status", "/nope"}}
        \cup {[path |-> "/files", name |-> <<>>, rootOk |-> b] : b \in BOOLEAN}
        \cup {[path |-> "/download", name |-> n, rootOk |-> TRUE] : n \in DownloadNames}

\* The handler server.on() bound to the path, run on the current state.
Dispatch(req) ==
    CASE req.path = "/"         -> RootResponse(currentLogFilename)
      [] req.path = "/data"     -> HistoryDataResponse(historyLines, historyHead, historyCount)
      [] req.path = "/files"    -> FilesResponse(cardMounted, sdFiles, req.rootOk)
      [] req.path = "/download" -> DownloadResponse(cardMounted, sdFiles, req.name)
      [] req.path = "/logs"     -> LogsResponse(currentLogFilename, historyLines,
                                                historyHead, historyCount)
      [] req.path = "/status"   -> StatusResponse(batteryVoltage, wifiConnected)
      [] OTHER                  -> NotFoundResponse

\* A /data handler that drains the ring it has sent (to compare with
\* LoopHandleClient).
LoopHandleClientDraining ==
    /\ pc = "web"
    /\ IF WebMode(Mode) /\ serverStarted
       THEN \/ resp' = NoResponse /\ UNCHANGED historyCount
            \/ \E req \in Requests :
                 /\ resp' = Dispatch(req)
                 /\ historyCount' = IF req.path = "/data" THEN 0 ELSE historyCount
       ELSE resp' = NoResponse /\ UNCHANGED historyCount
    /\ pc' = "serial"
    /\ UNCHANGED <<sel, menuExit, Mode, now, batteryVoltage, lastBattMs, historyLines,
                   historyHead, pushed, sdVars, netVars, tsVars, rxBuf, echo, rawLine, ingested,
                   ghostVars, readsLeft, mode1Init>>

\* A download handler that opens the file for writing and so empties it (to
\* compare with LoopHandleClient).
LoopHandleClientTruncating ==
    /\ pc = "web"
    /\ IF WebMode(Mode) /\ serverStarted
       THEN \/ resp' = NoResponse /\ UNCHANGED sdFiles
            \/ \E req \in Requests :
                 /\ resp' = Dispatch(req)
                 /\ sdFiles' = IF req.path = "/download" /\ cardMounted
                                   /\ req.name \in DOMAIN sdFiles
                                THEN [sdFiles EXCEPT ![req.name] = <<>>]
                                ELSE sdFiles
       ELSE resp' = NoResponse /\ UNCHANGED sdFiles
    /\ pc' = "serial"
    /\ UNCHANGED <<sel, menuExit, Mode, now, batteryVoltage, lastBattMs, ringVars,
                   currentLogFilename, currentLogFile, fileBuffer, sdMounted, cardMounted,
                   netVars, tsVars, rxBuf, echo, rawLine, ingested, ghostVars, readsLeft,
                   mode1Init>>

\* A server task that answers while the loop pushes a line (to compare
\* with LoopHandleClient).
LoopHandleClientDuringPush ==
    /\ pc = "web"
    /\ IF WebMode(Mode) /\ serverStarted
       THEN \/ resp' = NoResponse /\ UNCHANGED ringVars
            \/ \E req \in Requests :
                 /\ resp' = Dispatch(req)
                 /\ historyLines' = [historyLines EXCEPT ![historyHead] = <<"x">>]
                 /\ historyHead' = NextHead(historyHead)
                 /\ historyCount' = NextCount(historyCount)
                 /\ pushed' = Append(pushed, <<"x">>)
       ELSE resp' = NoResponse /\ UNCHANGED ringVars
    /\ pc' = "serial"
    /\ UNCHANGED <<sel, menuExit, Mode, now, batteryVoltage, lastBattMs,
                   sdVars, netVars, tsVars, rxBuf, echo, rawLine, ingested, ghostVars, readsLeft,
                   mode1Init>>

\* A handleClient that waits for a client when the server was never started
\* (to compare with LoopHandleClient).
LoopHandleClientBlocking ==
    /\ pc = "web"
    /\ IF WebMode(Mode) /\ serverStarted
       THEN /\ \/ resp' = NoResponse
               \/ \E req \in Requests : resp' = Dispatch(req)
            /\ pc' = "serial"
       ELSE /\ resp' = NoResponse
            /\ pc' = IF WebMode(Mode) THEN "web" ELSE "serial"
    /\ UNCHANGED <<sel, menuExit, Mode, now, batteryVoltage, lastBattMs, ringVars,
                   sdVars, netVars, tsVars, rxBuf, echo, rawLine, ingested, ghostVars, readsLeft,
                   mode1Init>>

\* line 295: server.handleClient() serves at most one pending request
LoopHandleClient ==
    /\ pc = "web"
    /\ IF WebMode(Mode) /\ serverStarted
       THEN \/ resp' = NoResponse
            \/ \E req \in Requests : resp' = Dispatch(req)
       ELSE resp' = NoResponse
    /\ pc' = "serial"
    /\ UNCHANGED <<sel, menuExit, Mode, now, batteryVoltage, lastBattMs, ringVars,
                   sdVars, netVars, tsVars, rxBuf, echo, rawLine, ingested, ghostVars, readsLeft,
                   mode1Init>>

\* A push skipped while the card is logging (to compare with pushHistory).
pushHistoryUnlessLogging(line) ==
    IF sdMounted
    THEN UNCHANGED <<historyLines, historyHead, historyCount, pushed>>
    ELSE /\ historyLines' = [historyLines EXCEPT ![historyHead] = line]
         /\ historyHead' = (historyHead + 1) % HISTORY_LINES
         /\ historyCount' = IF historyCount < HISTORY_LINES THEN historyCount + 1
                            ELSE historyCount
         /\ pushed' = Append(pushed, line)

\* pushHistory
pushHistory(line) ==
    /\ historyLines' = [historyLines EXCEPT ![historyHead] = line]
    /\ historyHead' = NextHead(historyHead)
    /\ historyCount' = NextCount(historyCount)
    /\ pushed' = Append(pushed, line)

\* lines 298-347: one read from Serial2, then the rest of the iteration, during
\* which time passes.  arrive: the bytes that reach the UART before the read ends.
LoopIngest ==
    /\ pc = "serial"
    /\ \E arrive \in arrivals :
         LET data     == rxBuf \o arrive
             line     == Trim(ReadStringUntil(data))
             fullLine == FullLine(cachedTimestamp, line)
             st       == [files |-> sdFiles, buf |-> fileBuffer]
             st2      == appendLineToSD(st, currentLogFilename, fullLine,
                                        sdMounted, currentLogFile)
         IN  /\ ReadsOf(arrive) <= readsLeft
             /\ rawLine' = ReadResult(data)
             /\ readsLeft' = readsLeft - ReadsOf(arrive)
             /\ IF Len(data) > 0
                THEN /\ rxBuf' = RestAfterRead(data)
                     /\ IF Len(line) > 0
                        THEN /\ ingested' = Append(ingested,
                                                   [ts |-> cachedTimestamp, payload |-> line])
                             /\ pushHistory(fullLine)
                             /\ echo' = IF EchoEnabled(Mode)
                                        THEN [printed |-> TRUE,
                                              text |-> PrintLine(Mode, line, fullLine)]
                                        ELSE NoEcho
                             /\ IF ShouldPersist(Mode, sdMounted)
                                THEN sdFiles' = st2.files /\ fileBuffer' = st2.buf
                                ELSE UNCHANGED <<sdFiles, fileBuffer>>
                        ELSE /\ echo' = NoEcho
                             /\ UNCHANGED <<ingested, ringVars, sdFiles, fileBuffer>>
                ELSE /\ echo' = NoEcho
                     /\ UNCHANGED <<rxBuf, ingested, ringVars, sdFiles, fileBuffer>>
    /\ \E d \in tickSteps : now + d <= MaxNow /\ now' = now + d
    /\ resp' = NoResponse
    /\ pc' = "loop"
    /\ UNCHANGED <<sel, menuExit, Mode, batteryVoltage, lastBattMs, currentLogFilename,
                   currentLogFile, sdMounted, cardMounted, netVars, tsVars, ghostVars,
                   mode1Init>>

(***************************************************************************)
(* Power cycle: RAM is lost, the bytes on the card stay, the bytes still   *)
(* in the handle's buffer are lost.  Taken at an iteration boundary or in  *)
(* deep sleep; the card's content only changes in setup and LoopIngest.    *)
(***************************************************************************)
Reset ==
    /\ pc \in {"loop", "off"}
    /\ resets < MaxResets
    /\ resets' = resets + 1
    /\ prevLogFilename' = IF Len(currentLogFilename) > 0 THEN currentLogFilename
                          ELSE prevLogFilename
    /\ \E v \in BatteryLevels : batteryVoltage' = v
    /\ powerGate' = "unknown"
    /\ pc' = "menu" /\ sel' = 0 /\ menuExit' = "none" /\ Mode' = -1 /\ now' = 0
    /\ lastBattMs' = 0
    /\ historyLines' = [i \in 0..(HISTORY_LINES - 1) |-> <<>>]
    /\ historyHead' = 0 /\ historyCount' = 0
    /\ currentLogFilename' = <<>> /\ currentLogFile' = FALSE /\ fileBuffer' = <<>>
    /\ sdMounted' = FALSE /\ cardMounted' = FALSE
    /\ wifiConnected' = FALSE /\ serverStarted' = FALSE
    /\ cachedTimestamp' = NO_TIME /\ lastTimestampUpdate' = 0 /\ timeQuery' = NoQuery
    /\ rxBuf' = <<>> /\ echo' = NoEcho /\ rawLine' = NoRead /\ resp' = NoResponse
    /\ pushed' = <<>> /\ ingested' = <<>> /\ mountAttempts' = 0
    /\ sdAtStart' = sdFiles
    /\ mode1Init' = FALSE
    /\ UNCHANGED <<sdFiles, readsLeft, tickSteps, arrivals>>

Next ==
    \/ MenuUp
    \/ MenuDown
    \/ MenuEnter
    \/ MenuTimeout
    \/ PowerOff
    \/ StartModeInitialization
    \/ LoopBegin
    \/ LoopHandleClient
    \/ LoopIngest

Spec == Init /\ [][Next]_vars

\* Sessions one after the other on the same card.
NextSessions == Next \/ Reset

\* The runs with power cycles are explored with a single serial read.
InitSessions ==
    /\ \E v \in BatteryLevels, files \in InitialMedia : PowerOn(v, files)
    /\ prevLogFilename = <<>> /\ readsLeft = 1 /\ resets = 0
    /\ tickSteps = TickSteps
    /\ arrivals = SerialArrivals

SpecSessions == InitSessions /\ [][NextSessions]_vars

\* The runs that watch the clock: no serial input, finer iteration durations.
InitClock ==
    /\ \E v \in BatteryLevels, files \in InitialMedia : PowerOn(v, files)
    /\ prevLogFilename = <<>> /\ readsLeft = 0 /\ resets = 0
    /\ tickSteps = FineTickSteps
    /\ arrivals = SerialArrivals

SpecClock == InitClock /\ [][Next]_vars

\* Bursts for the runs that watch progress: nothing, bytes without a
\* terminator, two lines at once (the second waits in the UART buffer).
LineBursts == { <<>>, <<"c">>, <<"a", "\n", "b", "\n">> }

InitLive ==
    /\ \E v \in BatteryLevels, files \in InitialMedia : PowerOn(v, files)
    /\ prevLogFilename = <<>> /\ readsLeft = 2 /\ resets = 0
    /\ tickSteps = TickSteps
    /\ arrivals = LineBursts

\* loop() is called again as soon as it returns, and each of its three steps
\* ends by itself: getLocalTime waits at most 500 ms, handleClient serves one
\* client, readStringUntil gives up after Serial2's 50 ms timeout.
LoopFairness ==
    /\ WF_vars(LoopBegin)
    /\ WF_vars(LoopHandleClient)
    /\ WF_vars(LoopIngest)

SpecLive == InitLive /\ [][Next]_vars /\ LoopFairness

(***************************************************************************)
(* LogBoy.ino, the first firmware: two modes, the SD and web setup done in *)
(* the first loop() iteration, the log file opened and closed per line.    *)
(* Its states are told apart by pc: v1menu, v1loop, v1web, v1serial.       *)
(***************************************************************************)
V1_BATTERY_SD_MIN_V == 3200

\* Battery readings (mV): sensor absent, present but below the SD threshold, good.
V1_BatteryLevels == {0, 3100, 3200}

V1_SdGate(voltage) == voltage >= V1_BATTERY_SD_MIN_V

V1_WifiGate(voltage) == voltage >= BATTERY_PRESENT_V

V1_MarkerHead == <<"L","o","g"," ","s","t","a","r","t",":"," ">>

\* f.printf("Log start: %s\n", get_timestamp())
V1_SessionMarker(ts) == V1_MarkerHead \o ts \o <<"\n">>

makeUniqueLogFilename(ts) ==
    LogPrefix
        \o Replace(Replace(Replace(Replace(ts, <<"[">>, <<>>), <<"]", " ">>, <<>>),
                           <<":">>, <<"-">>), <<" ">>, <<"-">>)
        \o TxtSuffix

\* open(FILE_APPEND), write, close: the bytes are on the card when it returns.
V1_WriteAndClose(files, name, bytes) ==
    [OpenForAppend(files, name) EXCEPT ![name] = @ \o bytes]

\* appendLineToSD; openOk: the FILE_APPEND open gave a handle.
V1_appendLineToSD(files, name, line, openOk) ==
    IF Len(name) = 0 THEN files
    ELSE IF ~openOk THEN files
    ELSE V1_WriteAndClose(files, name, line \o CRLF)

V1_ShouldPersist(mode, filename) == mode = 1 /\ Len(filename) > 0

V1_PrintLine(mode, line, fullLine) == IF mode = 1 THEN fullLine ELSE line

\* The globals as the C++ initialisers leave them; setup() does not read the
\* battery.
V1_PowerOn(files) ==
    /\ sdFiles = files /\ sdAtStart = files
    /\ pc = "v1menu" /\ sel = 0 /\ menuExit = "none" /\ Mode = 0 /\ now = 0
    /\ batteryVoltage = 0 /\ lastBattMs = 0
    /\ historyLines = [i \in 0..(HISTORY_LINES - 1) |-> <<>>]
    /\ historyHead = 0 /\ historyCount = 0
    /\ currentLogFilename = <<>> /\ currentLogFile = FALSE /\ fileBuffer = <<>>
    /\ sdMounted = FALSE /\ cardMounted = FALSE
    /\ wifiConnected = FALSE /\ serverStarted = FALSE
    /\ cachedTimestamp = NO_TIME /\ lastTimestampUpdate = 0 /\ timeQuery = NoQuery
    /\ rxBuf = <<>> /\ echo = NoEcho /\ rawLine = NoRead /\ resp = NoResponse
    /\ pushed = <<>> /\ ingested = <<>> /\ mountAttempts = 0
    /\ powerGate = "unknown" /\ mode1Init = FALSE

InitV1 ==
    /\ \E files \in InitialMedia : V1_PowerOn(files)
    /\ prevLogFilename = <<>> /\ readsLeft = MaxIngest /\ resets = 0
    /\ tickSteps = TickSteps
    /\ arrivals = SerialArrivals

v1MenuFrame ==
    <<sel, menuExit, batteryVoltage, lastBattMs, ramVars, sdFiles, rxBuf, echo, rawLine, resp,
      pushed, ingested, mountAttempts, sdAtStart, powerGate, prevLogFilename,
      readsLeft, resets, tickSteps, arrivals>>

\* chooseMode: ENTER within the timeout
ChooseModeEnter ==
    /\ pc = "v1menu"
    /\ Mode' = 1
    /\ now' = now + SetupDelayMs
    /\ pc' = "v1loop"
    /\ UNCHANGED v1MenuFrame

\* chooseMode: the timeout expires
ChooseModeTimeout ==
    /\ pc = "v1menu"
    /\ Mode' = 0
    /\ now' = now + SetupDelayMs
    /\ pc' = "v1loop"
    /\ UNCHANGED v1MenuFrame

\* loop() lines 153-206: timestamp, battery sample, and once in Mode 1 the
\* network and card setup, on the voltage just sampled.
V1_LoopBegin ==
    /\ pc = "v1loop"
    /\ updateCachedTimestamp(now)
    /\ IF BatteryDue(now, lastBattMs)
       THEN /\ lastBattMs' = now
            /\ \E v \in V1_BatteryLevels : batteryVoltage' = v
       ELSE UNCHANGED <<lastBattMs, batteryVoltage>>
    /\ IF Mode = 1 /\ ~mode1Init
       THEN \E wifiOk, mountOk, openOk \in BOOLEAN :
              LET sdTry    == V1_SdGate(batteryVoltage')
                  mounted  == sdTry /\ mountOk
                  filename == IF mounted THEN makeUniqueLogFilename(cachedTimestamp')
                              ELSE currentLogFilename
              IN  /\ mode1Init' = TRUE
                  /\ serverStarted' = (V1_WifiGate(batteryVoltage') /\ wifiOk)
                  /\ mountAttempts' = IF sdTry THEN mountAttempts + 1 ELSE mountAttempts
                  /\ cardMounted' = mounted
                  /\ currentLogFilename' = filename
                  /\ sdFiles' = IF mounted /\ openOk
                                THEN V1_WriteAndClose(sdFiles, filename,
                                                      V1_SessionMarker(cachedTimestamp'))
                                ELSE sdFiles
       ELSE UNCHANGED <<mode1Init, serverStarted, mountAttempts, cardMounted,
                        currentLogFilename, sdFiles>>
    /\ powerGate' = IF powerGate # "unknown" THEN powerGate
                    ELSE IF V1_SdGate(batteryVoltage') THEN "ok" ELSE "low"
    /\ echo' = NoEcho
    /\ rawLine' = NoRead
    /\ pc' = "v1web"
    /\ UNCHANGED <<sel, menuExit, Mode, now, ringVars, currentLogFile, fileBuffer,
                   sdMounted, wifiConnected, rxBuf, resp, ingested, sdAtStart,
                   prevLogFilename, readsLeft, resets, tickSteps, arrivals>>

\* web_handle_root
V1_RootResponse(voltage, lines, head, count) ==
    [route |-> "root", code |-> 200, battery_v |-> voltage, latest |-> count,
     body |-> JoinLines(HistorySnapshot(lines, head, count), <<"\n">>)]

\* web_handle_logs
V1_LogsResponse(filename, files, lines, head, count) ==
    IF Len(filename) > 0 /\ filename \in DOMAIN files
    THEN [route |-> "logs", code |-> 200, title |-> filename, body |-> files[filename]]
    ELSE [route |-> "logs", code |-> 200, title |-> <<>>,
          body |-> JoinLines(HistorySnapshot(lines, head, count), <<"\n">>)]

\* web_handle_status
V1_StatusResponse(voltage) == [route |-> "status", code |-> 200, battery_v |-> voltage]

V1_Dispatch(path) ==
    CASE path = "/"       -> V1_RootResponse(batteryVoltage, historyLines, historyHead,
                                             historyCount)
      [] path = "/logs"   -> V1_LogsResponse(currentLogFilename, sdFiles, historyLines,
                                             historyHead, historyCount)
      [] path = "/status" -> V1_StatusResponse(batteryVoltage)
      [] OTHER            -> NotFoundResponse

\* line 209: if (Mode == 1) server.handleClient()
V1_LoopHandleClient ==
    /\ pc = "v1web"
    /\ IF Mode = 1 /\ serverStarted
       THEN \/ resp' = NoResponse
            \/ \E path \in {"/", "/logs", "/status", "/nope"} : resp' = V1_Dispatch(path)
       ELSE resp' = NoResponse
    /\ pc' = "v1serial"
    /\ UNCHANGED <<sel, menuExit, Mode, now, batteryVoltage, lastBattMs, ringVars,
                   sdVars, netVars, tsVars, rxBuf, echo, rawLine, ingested, ghostVars, readsLeft,
                   mode1Init>>

\* lines 212-246: one read from Serial2, then the rest of the iteration
V1_LoopIngest ==
    /\ pc = "v1serial"
    /\ \E arrive \in arrivals, openOk \in BOOLEAN :
         LET data     == rxBuf \o arrive
             line     == Trim(ReadStringUntil(data))
             fullLine == FullLine(cachedTimestamp, line)
         IN  /\ ReadsOf(arrive) <= readsLeft
             /\ rawLine' = ReadResult(data)
             /\ readsLeft' = readsLeft - ReadsOf(arrive)
             /\ IF Len(data) > 0
                THEN /\ rxBuf' = RestAfterRead(data)
                     /\ IF Len(line) > 0
                        THEN /\ ingested' = Append(ingested,
                                                   [ts |-> cachedTimestamp, payload |-> line])
                             /\ pushHistory(fullLine)
                             /\ echo' = [printed |-> TRUE,
                                         text |-> V1_PrintLine(Mode, line, fullLine)]
                             /\ IF V1_ShouldPersist(Mode, currentLogFilename)
                                THEN sdFiles' = V1_appendLineToSD(sdFiles, currentLogFilename,
                                                                  fullLine, openOk)
                                ELSE UNCHANGED sdFiles
                        ELSE /\ echo' = NoEcho
                             /\ UNCHANGED <<ingested, ringVars, sdFiles>>
                ELSE /\ echo' = NoEcho
                     /\ UNCHANGED <<rxBuf, ingested, ringVars, sdFiles>>
    /\ \E d \in tickSteps : now + d <= MaxNow /\ now' = now + d
    /\ resp' = NoResponse
    /\ pc' = "v1loop"
    /\ UNCHANGED <<sel, menuExit, Mode, batteryVoltage, lastBattMs, currentLogFilename,
                   currentLogFile, fileBuffer, sdMounted, cardMounted, netVars, tsVars,
                   ghostVars, mode1Init>>

NextV1 ==
    \/ ChooseModeEnter
    \/ ChooseModeTimeout
    \/ V1_LoopBegin
    \/ V1_LoopHandleClient
    \/ V1_LoopIngest

SpecV1 == InitV1 /\ [][NextV1]_vars

\* Power cycle of the first firmware: RAM is lost, the card keeps its files
\* (every write was closed before loop() went on).
V1_Reset ==
    /\ pc = "v1loop"
    /\ resets < MaxResets
    /\ resets' = resets + 1
    /\ prevLogFilename' = IF Len(currentLogFilename) > 0 THEN currentLogFilename
                          ELSE prevLogFilename
    /\ sdAtStart' = sdFiles
    /\ pc' = "v1menu" /\ sel' = 0 /\ menuExit' = "none" /\ Mode' = 0 /\ now' = 0
    /\ batteryVoltage' = 0 /\ lastBattMs' = 0
    /\ historyLines' = [i \in 0..(HISTORY_LINES - 1) |-> <<>>]
    /\ historyHead' = 0 /\ historyCount' = 0
    /\ currentLogFilename' = <<>> /\ currentLogFile' = FALSE /\ fileBuffer' = <<>>
    /\ sdMounted' = FALSE /\ cardMounted' = FALSE
    /\ wifiConnected' = FALSE /\ serverStarted' = FALSE
    /\ cachedTimestamp' = NO_TIME /\ lastTimestampUpdate' = 0 /\ timeQuery' = NoQuery
    /\ rxBuf' = <<>> /\ echo' = NoEcho /\ rawLine' = NoRead /\ resp' = NoResponse
    /\ pushed' = <<>> /\ ingested' = <<>> /\ mountAttempts' = 0
    /\ powerGate' = "unknown" /\ mode1Init' = FALSE
    /\ UNCHANGED <<sdFiles, readsLeft, tickSteps, arrivals>>

NextV1Sessions == NextV1 \/ V1_Reset

InitV1Sessions ==
    /\ \E files \in InitialMedia : V1_PowerOn(files)
    /\ prevLogFilename = <<>> /\ readsLeft = 1 /\ resets = 0
    /\ tickSteps = TickSteps
    /\ arrivals = SerialArrivals

SpecV1Sessions == InitV1Sessions /\ [][NextV1Sessions]_vars

\* Either firmware on the device; these runs are explored with two serial reads.
InitFirmwares ==
    /\ \/ \E v \in BatteryLevels, files \in InitialMedia : PowerOn(v, files)
       \/ \E files \in InitialMedia : V1_PowerOn(files)
    /\ prevLogFilename = <<>> /\ readsLeft = 2 /\ resets = 0
    /\ tickSteps = TickSteps
    /\ arrivals = SerialArrivals

NextFirmwares == Next \/ NextV1

SpecFirmwares == InitFirmwares /\ [][NextFirmwares]_vars

(***************************************************************************)
(* Properties                                                              *)
(***************************************************************************)
Min(a, b) == IF a < b THEN a ELSE b

\* The last k elements of a sequence.
LastOf(s, k) == SubSeq(s, Len(s) - k + 1, Len(s))

\* The records the ingested lines make in a log file: prefix, payload, CR LF each.
RECURSIVE RenderedRecords(_)
RenderedRecords(ings) ==
    IF Len(ings) = 0 THEN <<>>
    ELSE ings[1].ts \o ings[1].payload \o CRLF \o RenderedRecords(Tail(ings))

\* The bytes the active log file held when this session opened it.
BytesAtOpen ==
    IF currentLogFilename \in DOMAIN sdAtStart THEN sdAtStart[currentLogFilename] ELSE <<>>

\* The bytes of the active log file: on the card, then still in the handle.
ActiveFileBytes == sdFiles[currentLogFilename] \o fileBuffer

\* C1: after N pushes the snapshot is the last min(N, C) pushed lines, oldest
\* first, the count is min(N, C), and /data renders exactly those lines.
C1_SnapshotIsLastPushed ==
    LET k == Min(Len(pushed), HISTORY_LINES)
    IN  /\ historyCount = k
        /\ HistorySnapshot(historyLines, historyHead, historyCount) = LastOf(pushed, k)
        /\ resp.route = "data" => resp.body = JoinLines(LastOf(pushed, k), <<"\n">>)

\* C1 witness: more pushes than slots, distinct lines, and /data served.
C1_Witness ==
    /\ Len(pushed) > HISTORY_LINES
    /\ pushed[Len(pushed)] # pushed[Len(pushed) - 1]
    /\ resp.route = "data"

\* C2: the lines pushed are exactly the non-empty lines read, each once, in
\* order, as prefix + payload, and the newest sits in the slot before head,
\* whatever the mode and the state of the card.
C2_EveryLinePushedOnce ==
    /\ Len(pushed) = Len(ingested)
    /\ \A i \in 1..Len(ingested) : pushed[i] = ingested[i].ts \o ingested[i].payload
    /\ Len(ingested) > 0 =>
         historyLines[(historyHead - 1 + HISTORY_LINES) % HISTORY_LINES]
             = pushed[Len(pushed)]

\* C2 witness: a line was pushed in a logging mode whose card mounted but whose
\* log file could not be opened.
C2_Witness ==
    /\ Len(pushed) > 0
    /\ PersistenceMode(Mode) /\ cardMounted /\ ~currentLogFile

\* C3: a read that yields a non-empty line adds that record to the log file iff
\* the mode persists and the handle is open; every other read leaves the card
\* and the handle's buffer as they were; the loop goes on either way.
C3_WriteIffPersistingAndOpen ==
    [][pc = "serial" =>
          LET gotLine == Len(ingested') = Len(ingested) + 1
              writes  == gotLine /\ PersistenceMode(Mode) /\ currentLogFile
          IN  /\ pc' = "loop"
              /\ writes =>
                   /\ DOMAIN sdFiles' = DOMAIN sdFiles
                   /\ \A n \in DOMAIN sdFiles \ {currentLogFilename} :
                        sdFiles'[n] = sdFiles[n]
                   /\ sdFiles'[currentLogFilename] \o fileBuffer'
                        = ActiveFileBytes \o RenderedRecords(<<ingested'[Len(ingested')]>>)
              /\ ~writes => sdFiles' = sdFiles /\ fileBuffer' = fileBuffer]_vars

\* C3 witness: a line was read in a logging mode without an open file, and
\* the card is as the session found it.
C3_Witness ==
    /\ pc = "loop" /\ Len(ingested) > 0
    /\ Mode = 2 /\ mountAttempts = 1 /\ ~currentLogFile
    /\ sdFiles = sdAtStart

\* C4: what the session has written to its log file is one marker line, then
\* the records of the lines read so far, in arrival order, each once.
C4_FileIsMarkerThenRecords ==
    currentLogFile =>
        \E ts \in {TimestampOf(r) : r \in TimeQueryResults} :
            ActiveFileBytes
                = BytesAtOpen \o SessionMarker(Mode, ts) \o RenderedRecords(ingested)

\* C4 witness: two different records in an open log file.
C4_Witness ==
    /\ currentLogFile /\ Len(ingested) >= 2
    /\ ingested[1] # ingested[2]

\* C5: at the end of an iteration every appended record is on the card and
\* nothing is left in the handle's buffer.
C5_AppendedLinesAreFlushed ==
    (pc = "loop" /\ currentLogFile /\ Len(ingested) > 0) =>
        /\ fileBuffer = <<>>
        /\ EndsWith(sdFiles[currentLogFilename], RenderedRecords(ingested))

\* C5 witness: an iteration ended after an append.
C5_Witness ==
    pc = "loop" /\ currentLogFile /\ Len(ingested) > 0 /\ echo.printed

\* C6: the number in a session's file name is greater than the number in the
\* previous session's and than the number in every Log*.txt file the card held
\* when the session started, and the name is the name of no file already there.
C6_FilenameNumberIncreases ==
    (pc \in {"loop", "web", "serial"} /\ cardMounted) =>
        /\ \A f \in DOMAIN sdAtStart :
             IsLogName(f) => LogNumberOf(currentLogFilename) > LogNumberOf(f)
        /\ currentLogFilename \notin DOMAIN sdAtStart
        /\ Len(prevLogFilename) > 0 =>
             LogNumberOf(currentLogFilename) > LogNumberOf(prevLogFilename)

\* C7: a session that found the battery below BATTERY_SD_MIN_V at
\* initialisation never mounts, never names or opens a log file and never
\* changes the card, in any mode and however the battery reads afterwards.
C7_LowBatteryNeverTouchesCard ==
    powerGate = "low" =>
        /\ mountAttempts = 0 /\ ~cardMounted /\ ~sdMounted
        /\ ~currentLogFile /\ currentLogFilename = <<>>
        /\ fileBuffer = <<>> /\ sdFiles = sdAtStart

\* C7 witness: a logging session started low, the battery recovered, and a
\* line was read.
C7_Witness ==
    /\ powerGate = "low" /\ PersistenceMode(Mode)
    /\ batteryVoltage >= BATTERY_SD_MIN_V
    /\ Len(ingested) > 0

\* A step that mounts, opens, or writes to the card or to the handle.
StorageStep ==
    \/ mountAttempts' > mountAttempts
    \/ sdFiles' # sdFiles
    \/ Len(fileBuffer') > Len(fileBuffer)

\* C8 as stated: no mount, open or write happens while the battery voltage
\* the firmware holds is below BATTERY_SD_MIN_V.
C8_NoStorageStepWhileLow ==
    [][StorageStep => batteryVoltage >= BATTERY_SD_MIN_V]_vars

\* C8: mount, open and marker happen only in initialisation and only with the
\* voltage held then at or above BATTERY_SD_MIN_V; appends happen only in
\* sessions that passed that gate, whatever the 1 Hz sample reads since.
C8_StorageGatedAtSessionStart ==
    [][StorageStep =>
          \/ pc = "init" /\ batteryVoltage >= BATTERY_SD_MIN_V
          \/ pc = "serial" /\ powerGate = "ok" /\ mountAttempts' = mountAttempts]_vars

\* C8 witness: an iteration appended a record while the sampled voltage was
\* below the threshold.
C8_Witness ==
    /\ pc = "loop" /\ echo.printed /\ currentLogFile
    /\ batteryVoltage < BATTERY_SD_MIN_V
    /\ EndsWith(sdFiles[currentLogFilename], RenderedRecords(ingested))

\* A /download request leaves the ring buffer and the log file alone.
DownloadFrame == UNCHANGED <<historyLines, historyHead, historyCount, sdVars>>

\* C9 as stated: unmounted gives 503 for every name, mounted with no such
\* file gives 404, never the other way round, and nothing changes.
C9_DownloadErrorsAsStated ==
    [][(pc = "web" /\ resp'.route = "download") =>
          /\ ~cardMounted => resp'.code = 503
          /\ (cardMounted /\ resp'.name \notin DOMAIN sdFiles) => resp'.code = 404
          /\ cardMounted => resp'.code # 503
          /\ ~cardMounted => resp'.code # 404
          /\ DownloadFrame]_vars

\* C9: unmounted gives 503 for every name; mounted gives 400 for an empty or
\* absent name, 404 for a non-empty name no file has, and never 503;
\* unmounted never gives 404 or 400; nothing changes.
C9_DownloadErrors ==
    [][(pc = "web" /\ resp'.route = "download") =>
          /\ ~cardMounted => resp'.code = 503
          /\ (cardMounted /\ Len(resp'.name) = 0) => resp'.code = 400
          /\ (cardMounted /\ Len(resp'.name) > 0 /\ resp'.name \notin DOMAIN sdFiles)
                => resp'.code = 404
          /\ (cardMounted /\ resp'.name \in DOMAIN sdFiles) => resp'.code = 200
          /\ DownloadFrame]_vars

\* C9 witness: a request without name answered 400 on a mounted card.
C9_Witness ==
    /\ pc = "serial" /\ resp.route = "download"
    /\ cardMounted /\ Len(resp.name) = 0 /\ resp.code = 400

\* C10: a served download sends the file's bytes in chunks of at most
\* DOWNLOAD_CHUNK bytes that add up to the announced length, and for the
\* active log file these bytes are the marker and every appended record.
C10_DownloadStreamsFile ==
    (resp.route = "download" /\ resp.code = 200) =>
        /\ \A i \in 1..Len(resp.chunks) : Len(resp.chunks[i]) \in 1..DOWNLOAD_CHUNK
        /\ Len(Concat(resp.chunks)) = resp.announced
        /\ Concat(resp.chunks) = sdFiles[resp.name]
        /\ (currentLogFile /\ resp.name = currentLogFilename) =>
             \E ts \in {TimestampOf(r) : r \in TimeQueryResults} :
                 Concat(resp.chunks)
                     = BytesAtOpen \o SessionMarker(Mode, ts) \o RenderedRecords(ingested)

\* C11: /files answers 503 exactly when the card is not mounted, "no files"
\* exactly when it is mounted and holds no Log*.txt file, and otherwise lists
\* exactly the Log*.txt files, each once, with its size.
C11_FilesOutcomes ==
    resp.route = "files" =>
        LET logs == {n \in DOMAIN sdFiles : IsLogName(n)}
        IN  /\ resp.code = 503 <=> ~cardMounted
            /\ resp.code # 503 =>
                 /\ resp.code = 200
                 /\ resp.noFiles <=> logs = {}
                 /\ resp.entries = {[name |-> n, size |-> Len(sdFiles[n])] : n \in logs}

\* The lines a snapshot of the current ring yields.
CurrentSnapshot == HistorySnapshot(historyLines, historyHead, historyCount)

\* C12: serving a request leaves head, count and slots as they were, the
\* /data body is the walk of the ring as it is, and no step without a push
\* changes what that walk yields.
C12_SnapshotIsPureRead ==
    [][/\ pc = "web" => UNCHANGED <<historyLines, historyHead, historyCount>>
       /\ resp'.route = "data" => resp'.body = JoinLines(CurrentSnapshot, <<"\n">>)
       /\ pushed' = pushed => CurrentSnapshot' = CurrentSnapshot]_vars

\* C12 witness: /data served from a full ring whose head is not at slot 0.
C12_Witness ==
    /\ pc = "serial" /\ resp.route = "data"
    /\ historyCount = HISTORY_LINES /\ historyHead # 0

\* Every character of s is whitespace or a line terminator.
AllSpace(s) == \A i \in 1..Len(s) : s[i] \in {" ", "\t", "\r", "\n", "\f"}

\* C13: an iteration that reads a line of whitespace only leaves the ring, the
\* log file and its handle untouched and prints nothing.
C13_BlankLineIsDiscarded ==
    [][(pc = "serial" /\ rawLine'.avail /\ AllSpace(rawLine'.raw)) =>
          /\ UNCHANGED <<historyLines, historyHead, historyCount>>
          /\ UNCHANGED <<sdFiles, fileBuffer, currentLogFile, currentLogFilename>>
          /\ ~echo'.printed]_vars

\* C13 witness: blanks and a CR were read while the ring and the open log
\* file held an earlier line.
C13_Witness ==
    /\ pc = "loop" /\ rawLine.avail /\ rawLine.raw = <<" ", "\r">>
    /\ historyCount > 0 /\ currentLogFile /\ EchoEnabled(Mode)

\* p is s without its leading and trailing whitespace, the inside untouched.
IsStripped(p, s) ==
    \E i \in 1..Len(s), j \in 1..Len(s) :
        /\ i <= j /\ p = SubSeq(s, i, j)
        /\ AllSpace(SubSeq(s, 1, i - 1)) /\ AllSpace(SubSeq(s, j + 1, Len(s)))
        /\ ~AllSpace(<<s[i]>>) /\ ~AllSpace(<<s[j]>>)

\* The slot the last push wrote.
NewestSlot == historyLines[(historyHead - 1 + HISTORY_LINES) % HISTORY_LINES]

\* C14: after a read that is not blank, the record in the ring (and at the end
\* of the open log file) is the cached timestamp followed by the String read
\* without its leading and trailing whitespace, the inside untouched.
C14_RecordIsPrefixThenPayload ==
    (rawLine.avail /\ ~AllSpace(rawLine.raw)) =>
        \E payload \in {ingested[Len(ingested)].payload} :
            /\ IsStripped(payload, rawLine.raw)
            /\ NewestSlot = cachedTimestamp \o payload
            /\ currentLogFile =>
                 EndsWith(sdFiles[currentLogFilename], cachedTimestamp \o payload \o CRLF)

\* C14 witness: " a b " and a CR were read under a valid timestamp and stored
\* as the timestamp followed by "a b".
C14_Witness ==
    /\ rawLine.avail /\ rawLine.raw = <<" ", "a", " ", "b", " ", "\r">>
    /\ cachedTimestamp # NO_TIME /\ currentLogFile
    /\ NewestSlot = cachedTimestamp \o <<"a", " ", "b">>

\* The bytes the card holds under a name (none if there is no such file).
BytesOnCard(name) == IF name \in DOMAIN sdFiles THEN sdFiles[name] ELSE <<>>

\* C15: in either firmware and every mode, an iteration that reads a line
\* puts prefix + payload in the ring, appends the same bytes (and a line end)
\* if it writes to the log file at all, and only the echo depends on the mode.
C15_StoredCopiesIgnoreEcho ==
    [][(pc \in {"serial", "v1serial"} /\ Len(ingested') = Len(ingested) + 1) =>
          LET last == ingested'[Len(ingested')]
              rec  == last.ts \o last.payload
          IN  /\ historyLines'[historyHead] = rec
              /\ (sdFiles' # sdFiles \/ fileBuffer' # fileBuffer) =>
                   sdFiles'[currentLogFilename] \o fileBuffer'
                       = BytesOnCard(currentLogFilename) \o fileBuffer \o rec \o CRLF
              /\ pc = "serial" =>
                   /\ Mode = 3 => ~echo'.printed
                   /\ Mode = 0 => echo'.printed /\ echo'.text = last.payload
                   /\ Mode \in {1, 2, 4} => echo'.printed /\ echo'.text = rec
              /\ pc = "v1serial" =>
                   /\ echo'.printed
                   /\ echo'.text = IF Mode = 1 THEN rec ELSE last.payload]_vars

\* C15 witness: Mode 3 stored a timestamped line in the ring and in the file
\* and echoed nothing.
C15_Witness ==
    /\ pc = "loop" /\ Mode = 3 /\ rawLine.avail /\ ~echo.printed
    /\ cachedTimestamp # NO_TIME
    /\ NewestSlot = cachedTimestamp \o <<"a", " ", "b">>
    /\ currentLogFile /\ EndsWith(sdFiles[currentLogFilename], NewestSlot \o CRLF)

\* C16: an update called less than 1000 ms after the last query leaves the
\* cached string and the time of the last query alone, one called later
\* queries, nothing else touches them, and two queries are never less than
\* 1000 ms apart.
C16_TimestampRateLimit ==
    [][LET called == pc = "loop" \/ (pc = "init" /\ Mode # 5)
           callAt == IF pc = "loop" THEN now ELSE now'
       IN  /\ (called /\ callAt - lastTimestampUpdate < 1000) =>
                UNCHANGED <<cachedTimestamp, lastTimestampUpdate>>
           /\ (called /\ callAt - lastTimestampUpdate >= 1000) =>
                lastTimestampUpdate' = callAt
           /\ ~called => UNCHANGED <<cachedTimestamp, lastTimestampUpdate>>
           /\ lastTimestampUpdate' # lastTimestampUpdate =>
                lastTimestampUpdate' - lastTimestampUpdate >= 1000]_vars

\* C16 witness: an update was called 400 ms after a query that had succeeded
\* and the cache kept that query's value and time.
C16_Witness ==
    /\ pc = "web" /\ now - lastTimestampUpdate = 400
    /\ lastTimestampUpdate > 0 /\ cachedTimestamp # NO_TIME

\* "[YYYY-MM-DD HH:MM:SS] " with digits in the places of the letters.
WellFormedPrefix(s) ==
    /\ Len(s) = 22
    /\ \A i \in 1..22 :
         CASE i = 1            -> s[i] = "["
           [] i \in {6, 9}     -> s[i] = "-"
           [] i \in {12, 22}   -> s[i] = " "
           [] i \in {15, 18}   -> s[i] = ":"
           [] i = 21           -> s[i] = "]"
           [] OTHER            -> s[i] \in {"0", "1", "2", "3", "4", "5", "6", "7", "8", "9"}

\* The prefix of 2024-01-01 12:00:00.
Prefix20240101 ==
    <<"[", "2", "0", "2", "4", "-", "0", "1", "-", "0", "1", " ",
      "1", "2", ":", "0", "0", ":", "0", "0", "]", " ">>

Sentinel == <<"[", "N", "O", "-", "T", "I", "M", "E", "]", " ">>

\* C17: the cached prefix is the sentinel until the time source is asked, the
\* formatted time after an answer, the sentinel after a failure whatever was
\* cached before, and never anything else.
C17_CacheFollowsLastQuery ==
    /\ ~timeQuery.asked => cachedTimestamp = Sentinel
    /\ (timeQuery.asked /\ ~timeQuery.answer.ok) => cachedTimestamp = Sentinel
    /\ (timeQuery.asked /\ timeQuery.answer.ok) =>
         /\ WellFormedPrefix(cachedTimestamp)
         /\ timeQuery.answer.tm
              = [year |-> 2024, mon |-> 1, mday |-> 1, hour |-> 12, min |-> 0, sec |-> 0]
              => cachedTimestamp = Prefix20240101
    /\ cachedTimestamp = Sentinel \/ WellFormedPrefix(cachedTimestamp)

\* C17 witness: the last query failed and the cache holds the sentinel, while
\* the ring still holds a line stamped with a valid time.
C17_Witness ==
    /\ timeQuery.asked /\ ~timeQuery.answer.ok /\ cachedTimestamp = Sentinel
    /\ Len(pushed) > 0 /\ StartsWith(pushed[1], Prefix20240101)

\* C18: an iteration whose read ends at the timeout, without a terminator,
\* pushes nothing and appends nothing.
C18_TimeoutYieldsNoLine ==
    [][(pc = "serial" /\ rawLine'.avail /\ ~rawLine'.terminated) =>
          /\ UNCHANGED <<historyLines, historyHead, historyCount>>
          /\ UNCHANGED <<sdFiles, fileBuffer>>]_vars

\* C19: the step that serves a request, whatever the route and whatever the
\* status it answers with, leaves the ring (head, count, slots), the timestamp
\* cache, the session filename, the mount flags and every file on the card
\* as they were.
C19_HandlersAreReadOnly ==
    [][pc = "web" =>
          /\ UNCHANGED <<historyLines, historyHead, historyCount>>
          /\ UNCHANGED <<cachedTimestamp, lastTimestampUpdate>>
          /\ UNCHANGED <<currentLogFilename, currentLogFile, fileBuffer>>
          /\ UNCHANGED <<sdMounted, cardMounted, sdFiles>>]_vars

\* C19 witness: a download of the session's own log file was served with
\* lines in the ring and the log file open.
C19_Witness ==
    /\ pc = "serial" /\ resp.route = "download" /\ resp.code = 200
    /\ resp.name = currentLogFilename
    /\ historyCount > 0 /\ currentLogFile /\ sdMounted
    /\ Len(currentLogFilename) > 0 /\ Len(BytesOnCard(currentLogFilename)) > 0

\* The loop runs in a web mode without a started server.
DegradedNetwork == pc \in {"loop", "web", "serial"} /\ WebMode(Mode) /\ ~serverStarted

\* C20: when mode 1 or 3 is initialised with the battery below the presence
\* threshold, or with no network joined, the server is not started; from then
\* on it stays stopped and no request is answered, while every read that is
\* not blank is pushed to the ring and, with the log file open, appended.
C20_DegradedNetworkKeepsLogging ==
    [][/\ (pc = "init" /\ WebMode(Mode)
             /\ (batteryVoltage < BATTERY_PRESENT_V \/ ~wifiConnected'))
          => ~serverStarted' /\ DegradedNetwork'
       /\ DegradedNetwork =>
            /\ DegradedNetwork'
            /\ resp' = NoResponse
            /\ (pc = "serial" /\ rawLine'.avail /\ ~AllSpace(rawLine'.raw)) =>
                 LET record == cachedTimestamp \o Trim(rawLine'.raw)
                 IN  /\ pushed' = Append(pushed, record)
                     /\ NewestSlot' = record
                     /\ currentLogFile =>
                          BytesOnCard(currentLogFilename)' \o fileBuffer'
                              = BytesOnCard(currentLogFilename) \o fileBuffer
                                  \o record \o CRLF]_vars

\* C20 witness: mode 1 or 3 on a good battery with no network joined: the
\* client step answered nothing, a line is in the ring and in the log file.
C20_Witness ==
    /\ pc = "serial" /\ DegradedNetwork /\ resp = NoResponse
    /\ ~wifiConnected /\ batteryVoltage >= BATTERY_PRESENT_V
    /\ Len(pushed) > 0 /\ currentLogFile
    /\ Len(BytesOnCard(currentLogFilename)) > 0

\* The next read of the UART buffer yields a line that is not blank.
LinePending == Len(Trim(ReadStringUntil(rxBuf))) > 0

InLoop == pc \in {"loop", "web", "serial"}

\* C22: a session calls the mount at most once, and only session
\* initialisation decides the mount flag, the session filename and the file
\* handle: no step of loop() changes them, mounts again, or creates or
\* removes a file on the card.
C22_SessionStateFixedAtInit ==
    [][/\ mountAttempts' <= 1
       /\ (InLoop /\ InLoop') =>
            /\ UNCHANGED <<sdMounted, cardMounted, currentLogFilename, currentLogFile>>
            /\ mountAttempts' = mountAttempts
            /\ DOMAIN sdFiles' = DOMAIN sdFiles
       /\ (pc = "init" /\ InLoop' /\ ~sdMounted') => ~currentLogFile'
       /\ (pc = "init" /\ InLoop') =>
            DOMAIN sdFiles' \subseteq DOMAIN sdFiles \cup {currentLogFilename'}]_vars

\* C22 witness: after a power cycle, a session that mounted once has appended
\* a line to its log file.
C22_Witness ==
    /\ resets = 1 /\ pc = "loop" /\ sdMounted /\ currentLogFile
    /\ mountAttempts = 1 /\ Len(ingested) > 0
    /\ Len(BytesOnCard(currentLogFilename)) > 0

\* C23: a session of the first firmware that names a log file never gets the
\* name the session before it had, whatever the time source answered when
\* each name was derived.
C23_FilenameDiffersAcrossResets ==
    (pc \in {"v1loop", "v1web", "v1serial"} /\ Len(currentLogFilename) > 0
       /\ Len(prevLogFilename) > 0)
        => currentLogFilename # prevLogFilename

\* C24: when the menu ends by its timeout the Mode is 0, whatever UP and DOWN
\* did to the previewed selection, and a Mode chosen by the menu is one of
\* the menu's entries.
C24_TimeoutSelectsModeZero ==
    /\ (pc = "init" /\ menuExit = "timeout") => Mode = 0
    /\ pc \in {"init", "loop", "web", "serial", "off"} => Mode \in 0..5

\* The head and the count are in range, and below capacity the head is the
\* count and exactly the slots 0..count-1 hold a line.
RingShape(lines, head, count) ==
    /\ head \in 0..(HISTORY_LINES - 1)
    /\ count \in 0..HISTORY_LINES
    /\ count < HISTORY_LINES =>
         /\ head = count
         /\ \A i \in 0..(HISTORY_LINES - 1) : (lines[i] # <<>>) <=> (i < count)

\* C25: the ring keeps its shape in every state; the count never decreases
\* and stays at the capacity once there; a push writes the slot at the old
\* head and no other, moves the head by one modulo the capacity and adds one
\* to the count only below the capacity; a step without a push leaves the
\* ring alone.
C25_RingInvariant ==
    [][/\ RingShape(historyLines, historyHead, historyCount)
       /\ RingShape(historyLines', historyHead', historyCount')
       /\ historyCount' >= historyCount
       /\ historyCount = HISTORY_LINES => historyCount' = HISTORY_LINES
       /\ IF Len(pushed') = Len(pushed) + 1
          THEN /\ historyLines' = [historyLines EXCEPT ![historyHead] = pushed'[Len(pushed')]]
               /\ historyHead' = (historyHead + 1) % HISTORY_LINES
               /\ historyCount' = IF historyCount < HISTORY_LINES THEN historyCount + 1
                                  ELSE historyCount
          ELSE /\ pushed' = pushed
               /\ UNCHANGED <<historyLines, historyHead, historyCount>>]_vars

\* C25 witness: one push more than the capacity: the count is at the
\* capacity, the head has wrapped to slot 1 and slot 0 holds the newest line.
C25_Witness ==
    /\ Len(pushed) = HISTORY_LINES + 1
    /\ historyCount = HISTORY_LINES /\ historyHead = 1
    /\ historyLines[0] = pushed[Len(pushed)]
    /\ historyLines[0] # pushed[1]

\* C26: the step that answers /data changes nothing in the ring and answers
\* with the lines pushed before it, so a line ingested later in the same
\* iteration is in no response of that iteration; the ring changes only in
\* the serial step, and only by the push of the line just read.
C26_HandlersAndIngestionAlternate ==
    [][/\ (pc = "web" /\ resp'.route = "data") =>
            /\ pushed' = pushed
            /\ UNCHANGED <<historyLines, historyHead, historyCount>>
            /\ resp'.body
                 = JoinLines(LastOf(pushed, Min(Len(pushed), HISTORY_LINES)), <<"\n">>)
       /\ (pc = "serial" /\ resp.route = "data" /\ pushed' # pushed) =>
            /\ Len(pushed') = Len(pushed) + 1
            /\ resp.body
                 = JoinLines(LastOf(pushed, Min(Len(pushed), HISTORY_LINES)), <<"\n">>)
       /\ <<historyLines, historyHead, historyCount>>' # <<historyLines, historyHead, historyCount>>
            => /\ pc = "serial"
               /\ pushed' = Append(pushed, cachedTimestamp \o Trim(rawLine'.raw))]_vars

\* C26 witness: /data was answered with the one line pushed so far while the
\* next line waits in the UART buffer for the serial step of this iteration.
C26_Witness ==
    /\ pc = "serial" /\ resp.route = "data"
    /\ Len(pushed) = 1 /\ historyCount = 1
    /\ LinePending

\* The bytes after the first LF (what follows the marker line).
AfterFirstLine(bytes) ==
    LET nl == IndexOf(bytes, "\n", 0)
    IN  IF nl = -1 THEN <<>> ELSE SubSeq(bytes, nl + 2, Len(bytes))

\* The lines of bytes in which every line ends with CR LF.
RECURSIVE SplitRecords(_)
SplitRecords(bytes) ==
    IF Len(bytes) = 0 THEN <<>>
    ELSE LET nl == IndexOf(bytes, "\n", 0)
         IN  IF nl < 1 THEN <<bytes>>
             ELSE <<SubSeq(bytes, 1, nl - 1)>>
                      \o SplitRecords(SubSeq(bytes, nl + 2, Len(bytes)))

\* The records the session's log file holds after the session's marker line.
FileRecords ==
    SplitRecords(AfterFirstLine(SubSeq(ActiveFileBytes, Len(BytesAtOpen) + 1,
                                       Len(ActiveFileBytes))))

\* C27: with the log file open, the records after the marker are lines that
\* were pushed, in push order, and between two iterations the ring snapshot
\* is the last min(C, n) of these n records.
C27_RingMirrorsFileTail ==
    currentLogFile =>
        LET recs == FileRecords
            n    == Len(recs)
        IN  /\ n <= Len(pushed)
            /\ \A i \in 1..n : recs[i] = pushed[i]
            /\ pc = "loop" =>
                 CurrentSnapshot = LastOf(recs, Min(HISTORY_LINES, n))

\* C27 witness: between two iterations the file holds more records than the
\* ring has slots, the oldest of them no longer in the ring.
C27_Witness ==
    /\ pc = "loop" /\ currentLogFile
    /\ Len(FileRecords) > HISTORY_LINES
    /\ FileRecords[1] # FileRecords[Len(FileRecords)]

\* C28: once session initialisation is done, the session filename is set
\* exactly when sdMounted is true and exactly when the handle is open; with no
\* open file the root page shows no current log file and /logs answers with
\* the lines in memory.
C28_FileIndicatorsAgree ==
    InLoop =>
        /\ (Len(currentLogFilename) > 0) <=> sdMounted
        /\ sdMounted <=> currentLogFile
        /\ ~currentLogFile =>
             /\ resp.route = "root" => resp.logfile = NotMountedText
             /\ resp.route = "logs" => resp.code = 200

\* The bytes this session has put on the card in its log file (what a power
\* loss now would leave after the bytes the file held at open).
SessionBytesOnCard ==
    SubSeq(BytesOnCard(currentLogFilename), Len(BytesAtOpen) + 1,
           Len(BytesOnCard(currentLogFilename)))

\* C29: from the first iteration of loop() on, a session with an open log
\* file has its marker line on the card, whether or not a line was ingested.
C29_MarkerIsOnCard ==
    (InLoop /\ currentLogFile) =>
        \E ts \in {TimestampOf(r) : r \in TimeQueryResults} :
            StartsWith(SessionBytesOnCard, SessionMarker(Mode, ts))

=============================================================================
